---- MODULE Spec2Model ----
(***************************************************************************)
(* Model of the quantization and hex-export scripts:                       *)
(*   python/src/quantize.py        quantize_tensor, quantize_bias_tensor,  *)
(*                                 compute_scale_shift,                    *)
(*                                 quantize_model_weights                  *)
(*   python/src/convert_to_hex.py  weights_to_hexfile,                     *)
(*                                 save_model_weights_hex                  *)
(*                                                                         *)
(* Real numbers (Python floats, tensor elements) are exact rationals       *)
(* <<n, d>> in lowest terms with d > 0; a tensor is the sequence of its    *)
(* elements in flattened order.  A parameter name is the sequence of its   *)
(* dot-separated parts, so that `"weight" in name` and                     *)
(* name.replace("bias", "weight") are computed part by part.               *)
(***************************************************************************)
EXTENDS Integers, Sequences, FiniteSets, TLC

VARIABLES
    pc,                 \* position: the entry point about to run, or how it ended
    args,               \* the arguments of the running entry point
    ret,                \* what the entry point handed back to its caller
    walked,             \* names yielded so far by model.named_parameters()
    quantized_params,   \* quantize_model_weights: the ordered dict being built
    layer_scales,       \* quantize_model_weights: weight name -> (in_scale, w_scale)
    prev_output_scale,  \* quantize_model_weights: the carried scale
    files,              \* hex files written, in the order they were opened
    requant_doc         \* requant_params.json: <<>> if not written, else <<entries>>

vars == <<pc, args, ret, walked, quantized_params, layer_scales,
          prev_output_scale, files, requant_doc>>

-----------------------------------------------------------------------------
(* Bounds of the model *)

\* longest tensor (number of elements) handed to a function
MaxLen == 2
\* largest numerator of an element of a tensor given to quantize_tensor
MaxNum == 4
\* largest denominator of an element of a tensor given to quantize_tensor
MaxDen == 2
\* largest num_bits given to quantize_tensor on its own
MaxBits == 4
\* largest |numerator| of a real_scale given to compute_scale_shift on its own
MaxScaleNum == 18
\* largest denominator of a real_scale given to compute_scale_shift on its own
MaxScaleDen == 3
\* largest scale_bits given to compute_scale_shift on its own
MaxScaleBits == 3
\* largest max_shift given to compute_scale_shift on its own
MaxMaxShift == 3
\* largest number of parameters model.named_parameters() yields
MaxParams == 3

-----------------------------------------------------------------------------
(* Exact arithmetic on rationals <<n, d>> *)

Abs(x) == IF x < 0 THEN -x ELSE x

RECURSIVE GCD(_, _)
GCD(a, b) == IF b = 0 THEN a ELSE GCD(b, a % b)

\* the rational n/d (d # 0) in lowest terms with a positive denominator
Rat(n, d) ==
    LET g == GCD(Abs(n), Abs(d))
        s == IF d < 0 THEN -1 ELSE 1
    IN  <<(s * n) \div g, (s * d) \div g>>

RInt(k) == <<k, 1>>
RMul(a, b) == Rat(a[1] * b[1], a[2] * b[2])
RDiv(a, b) == Rat(a[1] * b[2], a[2] * b[1])
RAbs(a) == <<Abs(a[1]), a[2]>>
RLess(a, b) == a[1] * b[2] < b[1] * a[2]
RMax(a, b) == IF RLess(a, b) THEN b ELSE a

\* floor(n / d) for d > 0
FloorDiv(n, d) == IF n >= 0 THEN n \div d ELSE -((-n + d - 1) \div d)

\* fault variant of Round: int() truncation instead of rounding
RoundTrunc(r) ==
    IF r[1] >= 0 THEN r[1] \div r[2] ELSE -((-r[1]) \div r[2])
\* round(): to the nearest integer, a tie to the even neighbour
\* (Python 3 round() on a float and torch.round agree on this)
Round(r) ==
    LET q   == FloorDiv(r[1], r[2])
        rem == r[1] - q * r[2]
    IN  IF 2 * rem < r[2] THEN q
        ELSE IF 2 * rem > r[2] THEN q + 1
        ELSE IF q % 2 = 0 THEN q ELSE q + 1

\* torch.clamp(x, lo, hi)
Clamp(x, lo, hi) == IF x < lo THEN lo ELSE IF x > hi THEN hi ELSE x

-----------------------------------------------------------------------------
(* What a call hands back: a value, or the exception it raised *)

NoReturn == [kind |-> "none"]
Value(v) == [kind |-> "value", value |-> v]
Raise(e) == [kind |-> "raise", error |-> e]

-----------------------------------------------------------------------------
(* quantize.py: quantize_tensor, quantize_bias_tensor *)

\* qmin = -2**(num_bits - 1)
QminOf(num_bits) == -(2 ^ (num_bits - 1))
\* fault variant of QmaxOf: the - 1 forgotten
QmaxOffByOne(num_bits) == 2 ^ (num_bits - 1)
\* qmax = 2**(num_bits - 1) - 1
QmaxOf(num_bits) == 2 ^ (num_bits - 1) - 1

\* max(abs(tensor.min()), abs(tensor.max())): the largest |element|
RECURSIVE MaxAbs(_)
MaxAbs(tensor) ==
    IF Len(tensor) = 1 THEN RAbs(tensor[1])
    ELSE RMax(RAbs(Head(tensor)), MaxAbs(Tail(tensor)))

\* clamp((tensor / scale).round(), qmin, qmax).to(int), element by element
QuantizeElems(tensor, scale, qmin, qmax) ==
    [i \in 1..Len(tensor) |-> Clamp(Round(RDiv(tensor[i], scale)), qmin, qmax)]

\* quantize_tensor(tensor, num_bits): Value(<<tensor_int, scale>>), or the
\* ZeroDivisionError of max_abs / qmax when qmax = 0 (num_bits = 1)
QuantizeTensor(tensor, num_bits) ==
    LET qmin    == QminOf(num_bits)
        qmax    == QmaxOf(num_bits)
        max_abs == MaxAbs(tensor)
    IN  IF max_abs # RInt(0) /\ qmax = 0 THEN Raise("ZeroDivisionError")
        ELSE LET scale == IF max_abs # RInt(0) THEN RDiv(max_abs, RInt(qmax))
                          ELSE RInt(1)
             IN  Value(<<QuantizeElems(tensor, scale, qmin, qmax), scale>>)

\* quantize_bias_tensor(bias_tensor, input_scale, weight_scale, num_bits)
QuantizeBiasTensor(bias_tensor, input_scale, weight_scale, num_bits) ==
    LET qmin  == QminOf(num_bits)
        qmax  == QmaxOf(num_bits)
        scale == RMul(input_scale, weight_scale)
    IN  <<QuantizeElems(bias_tensor, scale, qmin, qmax), scale>>

-----------------------------------------------------------------------------
(* quantize.py: compute_scale_shift *)

\* Python integers are unbounded.  Integers here are exact up to IntCap, and a
\* product real_scale * (1 << shift) whose numerator would pass IntCap is
\* represented by IntCap itself.  The only use the code makes of such a
\* scale_int is the comparison with 1 << scale_bits, and every input of this
\* model has denominator d and scale_bits with IntCap / d >= 2^scale_bits, so
\* the comparison comes out as in the code.
IntCap == 2 ^ 30

\* fault variant of ScaleIntAt: real_scale / (1 << shift)
ScaleIntAtDivided(real_scale, shift) ==
    Round(Rat(real_scale[1], real_scale[2] * (2 ^ shift)))
\* int(round(real_scale * (1 << shift)))
ScaleIntAt(real_scale, shift) ==
    IF real_scale[1] > IntCap \div (2 ^ shift) THEN IntCap
    ELSE Round(Rat(real_scale[1] * (2 ^ shift), real_scale[2]))

\* the loop `for shift in range(max_shift)`, from `shift` on
RECURSIVE ShiftLoop(_, _, _, _)
ShiftLoop(real_scale, scale_bits, max_shift, shift) ==
    IF shift >= max_shift THEN Raise("ValueError")
    ELSE LET scale_int == ScaleIntAt(real_scale, shift)
         IN  IF scale_int < 2 ^ scale_bits THEN Value(<<scale_int, shift>>)
             ELSE ShiftLoop(real_scale, scale_bits, max_shift, shift + 1)

\* fault variant of ComputeScaleShift: the search started at shift 1, as
\* range(1, max_shift) would
ComputeScaleShiftFromOne(real_scale, scale_bits, max_shift) ==
    ShiftLoop(real_scale, scale_bits, max_shift, 1)
\* compute_scale_shift(real_scale, scale_bits, max_shift)
ComputeScaleShift(real_scale, scale_bits, max_shift) ==
    ShiftLoop(real_scale, scale_bits, max_shift, 0)

-----------------------------------------------------------------------------
(* convert_to_hex.py: weights_to_hexfile *)

HexChars == <<"0", "1", "2", "3", "4", "5", "6", "7",
              "8", "9", "a", "b", "c", "d", "e", "f">>

\* the hex digits of n >= 0, most significant first, no padding
RECURSIVE HexOf(_)
HexOf(n) ==
    IF n < 16 THEN <<HexChars[n + 1]>>
    ELSE HexOf(n \div 16) \o <<HexChars[(n % 16) + 1]>>

Zeros(k) == [i \in 1..k |-> "0"]

\* format(val, '0{width}x'): sign first, then zeros up to the total width
\* (never cutting digits), then the digits
Format(val, width) ==
    LET sign == IF val < 0 THEN <<"-">> ELSE <<>>
        digs == HexOf(Abs(val))
        pad  == width - Len(sign) - Len(digs)
    IN  sign \o Zeros(IF pad > 0 THEN pad ELSE 0) \o digs

\* fault variant of TwosComplement: negative values passed through
TwosComplementNoWrap(val, max_val) == val
\* two's complement as lines 16-19 compute it
TwosComplement(val, max_val) == IF val < 0 THEN val + max_val ELSE val

\* the lines weights_to_hexfile writes for tensor_int, in order
HexLines(tensor_int, width_bits) ==
    LET max_val    == 2 ^ width_bits
        hex_digits == width_bits \div 4
    IN  [i \in 1..Len(tensor_int) |->
            Format(TwosComplement(tensor_int[i], max_val), hex_digits)]

-----------------------------------------------------------------------------
(* quantize.py: quantize_model_weights; convert_to_hex.py: save_model_weights_hex *)

\* scale_bits=16 in the call of compute_scale_shift
ScaleBits == 16
\* the default max_shift of compute_scale_shift, which that call leaves alone
MaxShift == 31

\* fault variant of OutScale: another constant
OutScaleTwo == RInt(2)
\* out_scale = 1.0
OutScale == RInt(1)

\* the names named_parameters() may yield, each at most once
Names == { <<"conv1", "weight">>, <<"conv1", "bias">>,
           <<"fc", "weight">>,    <<"fc", "bias">>,
           <<"bn", "running_mean">>, <<"weight", "bias">> }

\* the tensors a parameter may hold
WalkTensors == { << <<127, 2>>, <<-1, 1>> >>,
                 << <<1, 10000>> >>,
                 << <<-300, 1>>, <<1, 4>> >> }

\* the num_bits and bias_bits a caller may pass
NumBitsChoices == {4, 8}
BiasBitsChoices == {8, 16}

\* `part in name`
Contains(name, part) == \E i \in 1..Len(name) : name[i] = part

\* fault variant of WeightNameOf: the name left as it is
SameName(name) == name
\* name.replace("bias", "weight")
WeightNameOf(name) ==
    [i \in 1..Len(name) |-> IF name[i] = "bias" THEN "weight" ELSE name[i]]

\* the keys of the ordered dict quantized_params, for `key in d`
Keys(d) == {d[i].name : i \in 1..Len(d)}

\* fault variant of RealRequantScale: w_scale left out
RealRequantScaleNoWeight(out_scale, in_scale, w_scale) ==
    RDiv(out_scale, in_scale)
\* out_scale / (in_scale * w_scale)
RealRequantScale(out_scale, in_scale, w_scale) ==
    RDiv(out_scale, RMul(in_scale, w_scale))

\* fault variant of Abort: the error swallowed, the partial dict returned
AbortPartial(error, partial) == Value(partial)
\* an exception leaves quantize_model_weights: the caller gets no dict
Abort(error, partial) == Raise(error)

PcAfter(r) == IF r.kind = "value" THEN "returned" ELSE "raised"

\* one iteration of the loop, `"weight" in name`
WeightStep ==
    /\ pc = "walk"
    /\ Len(walked) < MaxParams
    /\ \E name \in Names \ {walked[i] : i \in 1..Len(walked)}, param \in WalkTensors :
        /\ Contains(name, "weight")
        /\ walked' = Append(walked, name)
        /\ LET r == QuantizeTensor(param, args.num_bits)
           IN  IF r.kind = "raise"
               THEN /\ ret' = Abort(r.error, quantized_params)
                    /\ pc' = PcAfter(ret')
                    /\ UNCHANGED <<quantized_params, layer_scales>>
               ELSE /\ quantized_params' = Append(quantized_params,
                            [name |-> name, quantized |-> r.value[1],
                             scale |-> r.value[2], requant |-> <<>>])
                    /\ layer_scales' =
                            [n \in DOMAIN layer_scales \cup {name} |->
                                IF n = name THEN <<prev_output_scale, r.value[2]>>
                                ELSE layer_scales[n]]
                    /\ UNCHANGED <<pc, ret>>
    /\ UNCHANGED <<args, prev_output_scale, files, requant_doc>>

\* one iteration of the loop, `"bias" in name` and not `"weight" in name`
BiasStep ==
    /\ pc = "walk"
    /\ Len(walked) < MaxParams
    /\ \E name \in Names \ {walked[i] : i \in 1..Len(walked)}, param \in WalkTensors :
        /\ ~Contains(name, "weight")
        /\ Contains(name, "bias")
        /\ walked' = Append(walked, name)
        /\ LET weight_name == WeightNameOf(name)
           IN  IF weight_name \notin Keys(quantized_params)
               THEN /\ ret' = Abort("RuntimeError", quantized_params)
                    /\ pc' = PcAfter(ret')
                    /\ UNCHANGED <<quantized_params, prev_output_scale>>
               ELSE LET in_scale == layer_scales[weight_name][1]
                        w_scale  == layer_scales[weight_name][2]
                        qb == QuantizeBiasTensor(param, in_scale, w_scale,
                                                 args.bias_bits)
                        rec == [name |-> name, quantized |-> qb[1],
                                scale |-> qb[2], requant |-> <<>>]
                        out_scale == OutScale
                        real_requant_scale ==
                            RealRequantScale(out_scale, in_scale, w_scale)
                        ss == ComputeScaleShift(real_requant_scale, ScaleBits,
                                                MaxShift)
                    IN  IF ss.kind = "raise"
                        THEN /\ quantized_params' = Append(quantized_params, rec)
                             /\ ret' = Abort(ss.error, quantized_params')
                             /\ pc' = PcAfter(ret')
                             /\ UNCHANGED prev_output_scale
                        ELSE /\ quantized_params' = Append(quantized_params,
                                    [rec EXCEPT !.requant =
                                        << [real_scale |-> real_requant_scale,
                                            scale_int  |-> ss.value[1],
                                            shift      |-> ss.value[2]] >>])
                             /\ prev_output_scale' = out_scale
                             /\ UNCHANGED <<pc, ret>>
    /\ UNCHANGED <<args, layer_scales, files, requant_doc>>

\* one iteration of the loop, neither branch taken
OtherStep ==
    /\ pc = "walk"
    /\ Len(walked) < MaxParams
    /\ \E name \in Names \ {walked[i] : i \in 1..Len(walked)}, param \in WalkTensors :
        /\ ~Contains(name, "weight")
        /\ ~Contains(name, "bias")
        /\ walked' = Append(walked, name)
    /\ UNCHANGED <<pc, args, ret, quantized_params, layer_scales,
                   prev_output_scale, files, requant_doc>>

\* named_parameters() is exhausted: return quantized_params
Return ==
    /\ pc = "walk"
    /\ ret' = Value(quantized_params)
    /\ pc' = PcAfter(ret')
    /\ UNCHANGED <<args, walked, quantized_params, layer_scales,
                   prev_output_scale, files, requant_doc>>

\* base_path + name.replace(".", "_") + ".hex"
FileName(name) == <<"weights/">> \o name \o <<".hex">>

\* the width_bits save_model_weights_hex passes for a parameter name
WidthFor(name) == IF Contains(name, "bias") THEN 8 ELSE 2

\* save_model_weights_hex(quantized_params), called with what
\* quantize_model_weights returned
SaveModelWeightsHex ==
    /\ pc = "returned"
    /\ LET d == ret.value
           with_requant == SelectSeq(d, LAMBDA e : e.requant # <<>>)
       IN  /\ files' = [i \in 1..Len(d) |->
                          [filename |-> FileName(d[i].name),
                           lines |-> HexLines(d[i].quantized, WidthFor(d[i].name))]]
           /\ requant_doc' = << [i \in 1..Len(with_requant) |->
                                   [name |-> with_requant[i].name,
                                    requant |-> with_requant[i].requant[1]]] >>
    /\ pc' = "saved"
    /\ UNCHANGED <<args, ret, walked, quantized_params, layer_scales,
                   prev_output_scale>>

InitWalk ==
    /\ pc = "walk"
    /\ args \in [num_bits : NumBitsChoices, bias_bits : BiasBitsChoices]
    /\ ret = NoReturn
    /\ walked = <<>>
    /\ quantized_params = <<>>
    /\ layer_scales = <<>>
    /\ prev_output_scale = RInt(1)
    /\ files = <<>>
    /\ requant_doc = <<>>

-----------------------------------------------------------------------------
(* The functions called on their own *)

\* the state of quantize_model_weights, untouched by the other entry points
Idle ==
    /\ walked = <<>>
    /\ quantized_params = <<>>
    /\ layer_scales = <<>>
    /\ prev_output_scale = RInt(1)

\* sequences over S of length 1..n
SeqsUpTo(S, n) == UNION {[1..k -> S] : k \in 1..n}

\* tensor elements of quantize_tensor: n/d, in lowest terms
QuantElems == {Rat(n, d) : n \in (-MaxNum)..MaxNum, d \in 1..MaxDen}

InitQuantize ==
    /\ pc = "quantize_tensor"
    /\ args \in [tensor : SeqsUpTo(QuantElems, MaxLen), num_bits : 1..MaxBits]
    /\ ret = NoReturn
    /\ Idle
    /\ files = <<>>
    /\ requant_doc = <<>>

CallQuantizeTensor ==
    /\ pc = "quantize_tensor"
    /\ ret' = QuantizeTensor(args.tensor, args.num_bits)
    /\ pc' = "quantize_tensor_done"
    /\ UNCHANGED <<args, walked, quantized_params, layer_scales,
                   prev_output_scale, files, requant_doc>>

ScaleInputs == {Rat(n, d) : n \in (-MaxScaleNum)..MaxScaleNum, d \in 1..MaxScaleDen}

InitShift ==
    /\ pc = "compute_scale_shift"
    /\ args \in [real_scale : ScaleInputs, scale_bits : 0..MaxScaleBits,
                 max_shift : 0..MaxMaxShift]
    /\ ret = NoReturn
    /\ Idle
    /\ files = <<>>
    /\ requant_doc = <<>>

CallComputeScaleShift ==
    /\ pc = "compute_scale_shift"
    /\ ret' = ComputeScaleShift(args.real_scale, args.scale_bits, args.max_shift)
    /\ pc' = "compute_scale_shift_done"
    /\ UNCHANGED <<args, walked, quantized_params, layer_scales,
                   prev_output_scale, files, requant_doc>>

\* the width_bits given to weights_to_hexfile on its own
HexWidths == {2, 4, 8, 12}

\* the integers of a signed width_bits-bit tensor
SignedRange(width_bits) == (-(2 ^ (width_bits - 1)))..(2 ^ (width_bits - 1) - 1)

\* tensors of one element (every value of the range), and longer ones made of
\* the ends of the range, -1 and 0
HexTensors(width_bits) ==
    {<<v>> : v \in SignedRange(width_bits)} \cup
    SeqsUpTo({-(2 ^ (width_bits - 1)), -1, 0, 2 ^ (width_bits - 1) - 1}, MaxLen)

InitHex ==
    /\ pc = "weights_to_hexfile"
    /\ \E w \in HexWidths :
        args \in [tensor_int : HexTensors(w), filename : {<<"t", ".hex">>},
                  width_bits : {w}]
    /\ ret = NoReturn
    /\ Idle
    /\ files = <<>>
    /\ requant_doc = <<>>

CallWeightsToHexfile ==
    /\ pc = "weights_to_hexfile"
    /\ files' = << [filename |-> args.filename,
                    lines |-> HexLines(args.tensor_int, args.width_bits)] >>
    /\ pc' = "weights_to_hexfile_done"
    /\ UNCHANGED <<args, ret, walked, quantized_params, layer_scales,
                   prev_output_scale, requant_doc>>

-----------------------------------------------------------------------------

Init == InitWalk \/ InitQuantize \/ InitShift \/ InitHex

Next ==
    \/ WeightStep
    \/ BiasStep
    \/ OtherStep
    \/ Return
    \/ SaveModelWeightsHex
    \/ CallQuantizeTensor
    \/ CallComputeScaleShift
    \/ CallWeightsToHexfile

Spec == Init /\ [][Next]_vars

-----------------------------------------------------------------------------
(* Properties *)

\* a - b and a <= b on rationals
RSub(a, b) == Rat(a[1] * b[2] - b[1] * a[2], a[2] * b[2])
RLeq(a, b) == a[1] * b[2] <= b[1] * a[2]

\* k is round(r): nearest integer, a tie going to the even one
IsRoundOf(k, r) ==
    LET twice == 2 * Abs(r[1] - k * r[2])
    IN  \/ twice < r[2]
        \/ twice = r[2] /\ k % 2 = 0

\* the shifts of range(max_shift) whose rounded product fits scale_bits
ValidShifts(s, scale_bits, max_shift) ==
    {sh \in 0..(max_shift - 1) :
        \E k \in (-(Abs(s[1]) + 1) * 2 ^ sh)..(2 ^ scale_bits - 1) :
            IsRoundOf(k, Rat(s[1] * 2 ^ sh, s[2]))}

\* a name the walk treats as a bias: the elif branch
IsBiasName(name) == Contains(name, "bias") /\ ~Contains(name, "weight")

\* the name of the weight a bias belongs to
MatchingWeight(name) ==
    [i \in 1..Len(name) |-> IF name[i] = "bias" THEN "weight" ELSE name[i]]

\* the value a line of hex digits denotes
RECURSIVE HexValue(_)
HexValue(line) ==
    IF line = <<>> THEN 0
    ELSE 16 * HexValue(SubSeq(line, 1, Len(line) - 1))
         + (CHOOSE k \in 0..15 : HexChars[k + 1] = line[Len(line)])

\* line is exactly width_bits/4 lowercase hex digits denoting v in two's
\* complement on width_bits bits
EncodesAt(line, v, width_bits) ==
    /\ Len(line) = width_bits \div 4
    /\ \A j \in 1..Len(line) : \E k \in 1..16 : HexChars[k] = line[j]
    /\ HexValue(line) = IF v >= 0 THEN v ELSE v + 2 ^ width_bits

\* C1: compute_scale_shift(s, scale_bits, max_shift) returns (si, sh) with
\* 0 <= sh < max_shift, si = round(s * 2^sh), si < 2^scale_bits and sh the
\* smallest such shift; it raises ValueError exactly when no shift of
\* [0, max_shift) satisfies the bound.
C1_ScaleShiftContract ==
    pc = "compute_scale_shift_done" =>
        LET s     == args.real_scale
            valid == ValidShifts(s, args.scale_bits, args.max_shift)
        IN  /\ ret.kind \in {"value", "raise"}
            /\ ret.kind = "value" =>
                LET si == ret.value[1]
                    sh == ret.value[2]
                IN  /\ sh \in 0..(args.max_shift - 1)
                    /\ IsRoundOf(si, Rat(s[1] * 2 ^ sh, s[2]))
                    /\ si < 2 ^ args.scale_bits
                    /\ sh \in valid
                    /\ \A t \in valid : sh <= t
            /\ (ret = Raise("ValueError")) <=> (valid = {})

C1_Witness ==
    /\ pc = "compute_scale_shift_done"
    /\ ret.kind = "value"
    /\ args.real_scale[2] > 1
    /\ args.max_shift > 1
    /\ ret.value[1] = 2 ^ args.scale_bits - 1

\* C2: every element of the integer tensor quantize_tensor(T, b) returns
\* lies in [-2^(b-1), 2^(b-1)-1].
C2_QuantizedInRange ==
    /\ (pc = "quantize_tensor_done" /\ ret.kind = "value") =>
        \A i \in 1..Len(ret.value[1]) :
            /\ ret.value[1][i] >= -(2 ^ (args.num_bits - 1))
            /\ ret.value[1][i] <= 2 ^ (args.num_bits - 1) - 1
    /\ \A e \in 1..Len(quantized_params) :
        Contains(quantized_params[e].name, "weight") =>
            \A i \in 1..Len(quantized_params[e].quantized) :
                /\ quantized_params[e].quantized[i] >= -(2 ^ (args.num_bits - 1))
                /\ quantized_params[e].quantized[i] <= 2 ^ (args.num_bits - 1) - 1

C2_Witness ==
    /\ pc = "quantize_tensor_done"
    /\ ret.kind = "value"
    /\ args.num_bits = 3
    /\ Len(args.tensor) = 2
    /\ ret.value[1][1] = 3
    /\ ret.value[1][2] = -2

\* C3: with (Q, scale) = quantize_tensor(T, b), for every index i
\* |Q[i] * scale - T[i]| <= 0.5 * scale: Q[i] is round(T[i] / scale), which the
\* clamp leaves alone.
C3_DequantErrorBound ==
    (pc = "quantize_tensor_done" /\ ret.kind = "value") =>
        LET Q     == ret.value[1]
            scale == ret.value[2]
        IN  /\ Len(Q) = Len(args.tensor)
            /\ \A i \in 1..Len(Q) :
                /\ RLeq(RAbs(RSub(RMul(RInt(Q[i]), scale), args.tensor[i])),
                        RDiv(scale, RInt(2)))
                /\ IsRoundOf(Q[i], RDiv(args.tensor[i], scale))

C3_Witness ==
    /\ pc = "quantize_tensor_done"
    /\ ret.kind = "value"
    /\ \E i \in 1..Len(args.tensor) :
        /\ RMul(RInt(ret.value[1][i]), ret.value[2]) # args.tensor[i]
        /\ RAbs(RSub(RMul(RInt(ret.value[1][i]), ret.value[2]), args.tensor[i]))
             = RDiv(ret.value[2], RInt(2))

\* C4: for width_bits a multiple of 4 and v in the signed range of width_bits,
\* weights_to_hexfile writes one line per element, in flattened order, each of
\* exactly width_bits/4 lowercase hex digits denoting v (v >= 0) or
\* v + 2^width_bits (v < 0); at width 8: -1 -> ff, 127 -> 7f, -128 -> 80, 0 -> 00.
C4_HexEncoding ==
    (pc = "weights_to_hexfile_done" /\ args.width_bits % 4 = 0) =>
        /\ Len(files) = 1
        /\ Len(files[1].lines) = Len(args.tensor_int)
        /\ \A i \in 1..Len(args.tensor_int) :
            LET v    == args.tensor_int[i]
                line == files[1].lines[i]
            IN  /\ EncodesAt(line, v, args.width_bits)
                /\ (args.width_bits = 8 /\ v = -1) => line = <<"f", "f">>
                /\ (args.width_bits = 8 /\ v = 127) => line = <<"7", "f">>
                /\ (args.width_bits = 8 /\ v = -128) => line = <<"8", "0">>
                /\ (args.width_bits = 8 /\ v = 0) => line = <<"0", "0">>

C4_Witness ==
    /\ pc = "weights_to_hexfile_done"
    /\ args.width_bits = 8
    /\ args.tensor_int = <<-128, 127>>
    /\ files[1].lines = << <<"8", "0">>, <<"7", "f">> >>

\* a name the walk treats as a weight and the export as a weight too
IsWeightName(name) == Contains(name, "weight") /\ ~Contains(name, "bias")

\* C5: save_model_weights_hex writes each tensor at the bit width
\* quantize_model_weights quantized it with, weights at 8 bits (2 hex digits
\* per line) and biases at bias_bits: every line has bit_width/4 hex digits
\* and is the two's complement encoding of the quantized value.
C5_WrittenAtQuantizedWidth ==
    (pc = "saved" /\ args.num_bits = 8) =>
        /\ Len(files) = Len(ret.value)
        /\ \A e \in 1..Len(files) :
            LET q == ret.value[e].quantized
            IN  /\ Len(files[e].lines) = Len(q)
                /\ IsWeightName(ret.value[e].name) =>
                        \A i \in 1..Len(q) : EncodesAt(files[e].lines[i], q[i], 8)
                /\ IsBiasName(ret.value[e].name) =>
                        \A i \in 1..Len(q) :
                            EncodesAt(files[e].lines[i], q[i], args.bias_bits)

\* C6: a bias step raises RuntimeError exactly when the weight named by the
\* bias name with "bias" replaced by "weight" was not processed earlier in
\* the walk.
C6_BiasNeedsEarlierWeight ==
    [][ (pc = "walk" /\ Len(walked') = Len(walked) + 1
            /\ IsBiasName(walked'[Len(walked')]))
        => LET wanted  == MatchingWeight(walked'[Len(walked')])
               earlier == \E j \in 1..Len(walked) : walked[j] = wanted
           IN  /\ ~earlier => (pc' = "raised" /\ ret' = Raise("RuntimeError"))
               /\ earlier => ret' # Raise("RuntimeError") ]_vars

C6_Witness ==
    /\ pc = "raised"
    /\ ret = Raise("RuntimeError")
    /\ Len(walked) = 3
    /\ walked[1] = <<"conv1", "weight">>
    /\ walked[2] = <<"conv1", "bias">>
    /\ walked[3] = <<"fc", "bias">>

\* C7: the requant entry of a bias has real_scale = out_scale / (input_scale *
\* weight_scale) with out_scale = 1.0 and the pair recorded for the matching
\* weight, and (scale_int, shift) = compute_scale_shift(real_scale, 16, 31);
\* weight_scale 0.5 and input_scale 1.0 give real_scale 2.0 and (2, 0).
C7_RequantEntry ==
    \A e \in 1..Len(quantized_params) :
        quantized_params[e].requant # <<>> =>
            LET rq     == quantized_params[e].requant[1]
                wanted == MatchingWeight(quantized_params[e].name)
                in_s   == layer_scales[wanted][1]
                w_s    == layer_scales[wanted][2]
            IN  /\ \E j \in 1..(e - 1) :
                    /\ quantized_params[j].name = wanted
                    /\ quantized_params[j].scale = w_s
                /\ RMul(rq.real_scale, RMul(in_s, w_s)) = RInt(1)
                /\ rq.shift \in 0..30
                /\ rq.scale_int < 65536
                /\ IsRoundOf(rq.scale_int,
                             Rat(rq.real_scale[1] * 2 ^ rq.shift, rq.real_scale[2]))
                /\ \A t \in 0..(rq.shift - 1) :
                        ScaleIntAt(rq.real_scale, t) >= 65536
                /\ (w_s = <<1, 2>> /\ in_s = <<1, 1>>) =>
                        (rq.real_scale = <<2, 1>> /\ rq.scale_int = 2 /\ rq.shift = 0)

C7_Witness ==
    /\ Len(quantized_params) = 2
    /\ quantized_params[1].name = <<"conv1", "weight">>
    /\ quantized_params[1].scale = <<1, 2>>
    /\ quantized_params[2].name = <<"conv1", "bias">>
    /\ quantized_params[2].requant =
          << [real_scale |-> <<2, 1>>, scale_int |-> 2, shift |-> 0] >>

\* the walk has met one of the two fatal errors: its last parameter is a bias
\* whose weight was not processed before it, or a bias whose requant scale
\* compute_scale_shift could not represent
FatalErrorMet ==
    /\ walked # <<>>
    /\ IsBiasName(walked[Len(walked)])
    /\ \/ \A j \in 1..(Len(walked) - 1) :
              walked[j] # MatchingWeight(walked[Len(walked)])
       \/ /\ quantized_params # <<>>
          /\ quantized_params[Len(quantized_params)].name = walked[Len(walked)]
          /\ quantized_params[Len(quantized_params)].requant = <<>>

\* C8: when the out-of-range-scale error or the missing-weight error occurs,
\* quantize_model_weights returns no quantized parameters, not even those
\* processed before the failing one, and no hex file and no requant document
\* is written.
C8_NoPartialSuccess ==
    /\ FatalErrorMet =>
        /\ pc = "raised"
        /\ ret \in {Raise("RuntimeError"), Raise("ValueError")}
        /\ files = <<>>
        /\ requant_doc = <<>>
    /\ pc \in {"returned", "saved"} => (~FatalErrorMet /\ ret = Value(quantized_params))
    /\ (files # <<>> \/ requant_doc # <<>>) =>
            pc \in {"saved", "weights_to_hexfile_done"}

C8_Witness ==
    /\ FatalErrorMet
    /\ pc = "raised"
    /\ ret = Raise("ValueError")
    /\ Len(walked) = 3
    /\ Len(quantized_params) = 2
    /\ quantized_params[1].name = <<"fc", "weight">>
    /\ quantized_params[2].name = <<"fc", "bias">>
    /\ files = <<>>
    /\ requant_doc = <<>>

\* every requant record of the walk has shift 0
WalkShiftsAreZero ==
    \A e \in 1..Len(quantized_params) :
        quantized_params[e].requant # <<>> =>
            quantized_params[e].requant[1].shift = 0

\* C9 as stated: a returned shift is 0, the result is (round(real_scale), 0)
\* when round(real_scale) < 2^scale_bits and the call raises otherwise; every
\* requant record has shift 0.
C9_ShiftAlwaysZero_Original ==
    /\ pc = "compute_scale_shift_done" =>
        LET s    == args.real_scale
            fits == \E k \in (-(Abs(s[1]) + 1))..(2 ^ args.scale_bits - 1) :
                        IsRoundOf(k, s)
        IN  /\ fits => (ret.kind = "value" /\ ret.value[2] = 0
                         /\ IsRoundOf(ret.value[1], s))
            /\ ~fits => ret.kind = "raise"
    /\ WalkShiftsAreZero

\* C9 amended: the same for max_shift >= 1; with max_shift = 0 the loop body
\* never runs and the call raises for every real_scale.
C9_ShiftAlwaysZero ==
    /\ pc = "compute_scale_shift_done" =>
        LET s    == args.real_scale
            fits == \E k \in (-(Abs(s[1]) + 1))..(2 ^ args.scale_bits - 1) :
                        IsRoundOf(k, s)
        IN  /\ ret.kind = "value" => ret.value[2] = 0
            /\ (fits /\ args.max_shift >= 1) =>
                    (ret.kind = "value" /\ IsRoundOf(ret.value[1], s))
            /\ (~fits \/ args.max_shift = 0) => ret = Raise("ValueError")
            /\ s[1] >= 0 =>
                \A sh \in 0..args.max_shift :
                    ScaleIntAt(s, sh) <= ScaleIntAt(s, sh + 1)
            /\ s[1] < 0 => ScaleIntAt(s, 0) < 2 ^ args.scale_bits
    /\ WalkShiftsAreZero

C9_Witness ==
    /\ pc = "compute_scale_shift_done"
    /\ ret = Raise("ValueError")
    /\ args.max_shift >= 2
    /\ args.scale_bits = 3
    /\ args.real_scale = <<17, 2>>

\* C10: prev_output_scale is 1.0 in every state of the walk, so every layer
\* scale has input_scale 1.0, every bias is quantized with its weight's scale
\* and every real requant scale is 1 / weight_scale.
C10_PrevOutputScaleIsOne ==
    /\ prev_output_scale = <<1, 1>>
    /\ \A n \in DOMAIN layer_scales : layer_scales[n][1] = <<1, 1>>
    /\ \A e \in 1..Len(quantized_params) :
        IsBiasName(quantized_params[e].name) =>
            LET wanted == MatchingWeight(quantized_params[e].name)
            IN  \E j \in 1..(e - 1) :
                    /\ quantized_params[j].name = wanted
                    /\ quantized_params[e].scale = quantized_params[j].scale
                    /\ quantized_params[e].requant # <<>> =>
                        RMul(quantized_params[e].requant[1].real_scale,
                             quantized_params[j].scale) = <<1, 1>>

C10_Witness ==
    /\ pc = "walk"
    /\ Len(quantized_params) = 3
    /\ quantized_params[2].requant # <<>>
    /\ quantized_params[3].name = <<"fc", "weight">>
    /\ layer_scales[<<"fc", "weight">>][1] = <<1, 1>>
    /\ prev_output_scale = <<1, 1>>

====
